---- MODULE Spec2Model ----
(***************************************************************************)
(* Dynasty Site Updater (src/main.py): a single-shot script that checks    *)
(* its credential, fetches league detail, rosters and users from the       *)
(* Sleeper API, builds a sorted standings table, prints it and asks a      *)
(* generative model for a summary.                                         *)
(*                                                                         *)
(* JSON values are tagged records [t, n, s]: t is the kind ("absent" for a *)
(* key that is not in its object, "null", "num", "str"), n the number of a *)
(* "num" and s the text of a "str".  The score fpts is a float in the      *)
(* source; here it is kept in hundredths (fpts * 100) so that              *)
(* float(fpts) + float(fpts_decimal) / 100 is the integer                  *)
(* 100 * fpts + fpts_decimal.                                              *)
(***************************************************************************)
EXTENDS Integers, Sequences, FiniteSets, TLC

(* ---------------------------- bounds --------------------------------- *)

\* longest roster list the rosters request answers with
MaxRosters == 3
\* largest wins count and largest score part of a roster
MaxNum == 2

(* ---------------------------- JSON values ---------------------------- *)

Absent == [t |-> "absent", n |-> 0, s |-> ""]
Null == [t |-> "null", n |-> 0, s |-> ""]
Num(k) == [t |-> "num", n |-> k, s |-> ""]
Str(x) == [t |-> "str", n |-> 0, s |-> x]

\* dict.get(key): a key that is not there reads as None
Get(v) == IF v.t = "absent" THEN Null ELSE v

\* dict.get(key, default)
GetDefault(v, default) == IF v.t = "absent" THEN default ELSE v

\* Python truthiness of a JSON scalar: None, 0 and "" are false
Truthy(v) ==
    /\ v.t \in {"num", "str"}
    /\ (v.t = "num" => v.n # 0)
    /\ (v.t = "str" => v.s # "")

\* the decimal strings float() accepts, with their values
NumericStrings == [x \in {"0", "1", "7"} |-> CASE x = "0" -> 0 [] x = "1" -> 1 [] x = "7" -> 7]

\* float(v) reading the empty string as 0
FloatMishandlingEmpty(v) ==
    CASE v.t = "num" -> [ok |-> TRUE, val |-> v.n]
      [] v.t = "str" /\ v.s \in DOMAIN NumericStrings -> [ok |-> TRUE, val |-> NumericStrings[v.s]]
      [] v.t = "str" /\ v.s = "" -> [ok |-> TRUE, val |-> 0]
      [] OTHER -> [ok |-> FALSE, val |-> 0]

\* float(v): a number converts, a numeric string parses, any other string
\* raises ValueError, None raises TypeError
Float(v) ==
    CASE v.t = "num" -> [ok |-> TRUE, val |-> v.n]
      [] v.t = "str" /\ v.s \in DOMAIN NumericStrings -> [ok |-> TRUE, val |-> NumericStrings[v.s]]
      [] OTHER -> [ok |-> FALSE, val |-> 0]

(* ---------------------------- records --------------------------------- *)

\* a roster's metadata: the key is absent, null, or an object with an
\* optional team_name
MetaAbsent == [t |-> "absent", team_name |-> Absent]
MetaNull == [t |-> "null", team_name |-> Absent]
MetaDict(name) == [t |-> "dict", team_name |-> name]

\* a roster's settings: the key is absent, null, or an object with optional
\* wins, losses, ties, fpts and fpts_decimal
NoFields == [wins |-> Absent, losses |-> Absent, ties |-> Absent, fpts |-> Absent, fpts_decimal |-> Absent]
SettingsAbsent == [t |-> "absent", f |-> NoFields]
SettingsNull == [t |-> "null", f |-> NoFields]
SettingsDict(w, l, ti, fp, fd) ==
    [t |-> "dict", f |-> [wins |-> w, losses |-> l, ties |-> ti, fpts |-> fp, fpts_decimal |-> fd]]

Roster(o, m, st) == [owner_id |-> o, metadata |-> m, settings |-> st]
User(id, name) == [user_id |-> id, display_name |-> name]

NoEntry == [owner_name |-> Null, team_name |-> Null, wins |-> Null, losses |-> Null, ties |-> Null, fpts |-> 0]

(* ---------------------------- standings builder ----------------------- *)

\* user_map = {user['user_id']: user['display_name'] for user in users}:
\* a later user with the same id replaces an earlier one
LastWith(users, id) == CHOOSE j \in DOMAIN users :
    /\ users[j].user_id = id
    /\ \A k \in DOMAIN users : users[k].user_id = id => k <= j

UserMap(users) ==
    [id \in {users[j].user_id : j \in DOMAIN users} |-> users[LastWith(users, id)].display_name]

\* `if owner_id in user_map`, without the truthiness test
OwnerMappedIgnoringEmpty(roster, user_map) == Get(roster.owner_id) \in DOMAIN user_map

\* if owner_id and owner_id in user_map
OwnerMapped(roster, user_map) ==
    /\ Truthy(Get(roster.owner_id))
    /\ Get(roster.owner_id) \in DOMAIN user_map

\* roster.get('metadata', {}).get('team_name', owner_name): .get on a null
\* metadata raises AttributeError
TeamName(roster, owner_name) ==
    IF roster.metadata.t = "null" THEN [ok |-> FALSE, val |-> Null]
    ELSE [ok |-> TRUE, val |-> GetDefault(roster.metadata.team_name, owner_name)]

\* fpts = float(fpts_raw) + float(fpts_decimal_raw) / 100, or 0.0 when a
\* conversion raises ValueError or TypeError; in hundredths
Fpts(f) ==
    LET fpts_raw == GetDefault(f.fpts, Num(0))
        fpts_decimal_raw == GetDefault(f.fpts_decimal, Num(0))
    IN  IF Float(fpts_raw).ok /\ Float(fpts_decimal_raw).ok
        THEN 100 * Float(fpts_raw).val + Float(fpts_decimal_raw).val
        ELSE 0

\* the body of `for roster in rosters`: "skip" when the owner is not mapped,
\* "raise" when a .get on null metadata or null settings raises
\* AttributeError, else the entry appended to league_standings
BuildEntry(roster, user_map) ==
    IF ~OwnerMapped(roster, user_map) THEN [kind |-> "skip", entry |-> NoEntry]
    ELSE LET owner_name == user_map[Get(roster.owner_id)]
             team_name == TeamName(roster, owner_name)
             f == roster.settings.f
         IN  IF ~team_name.ok \/ roster.settings.t = "null"
             THEN [kind |-> "raise", entry |-> NoEntry]
             ELSE [kind |-> "entry",
                   entry |-> [owner_name |-> owner_name,
                              team_name |-> team_name.val,
                              wins |-> GetDefault(f.wins, Num(0)),
                              losses |-> GetDefault(f.losses, Num(0)),
                              ties |-> GetDefault(f.ties, Num(0)),
                              fpts |-> Fpts(f)]]

\* key=lambda x: (x['wins'], x['fpts']): tuple order, wins first
KeyLess(a, b) ==
    \/ a.wins.n < b.wins.n
    \/ a.wins.n = b.wins.n /\ a.fpts < b.fpts

\* an insertion that puts e ahead of the elements with its key
InsertBeforeTies(sorted, e) ==
    LET ahead == {p \in DOMAIN sorted : KeyLess(e, sorted[p])}
        k == Cardinality(ahead)
    IN  SubSeq(sorted, 1, k) \o <<e>> \o SubSeq(sorted, k + 1, Len(sorted))

\* one insertion of a stable descending sort: e goes after every element
\* whose key is not below its own
Insert(sorted, e) ==
    LET ahead == {p \in DOMAIN sorted : ~KeyLess(sorted[p], e)}
        k == Cardinality(ahead)
    IN  SubSeq(sorted, 1, k) \o <<e>> \o SubSeq(sorted, k + 1, Len(sorted))

\* league_standings.sort(key=..., reverse=True): descending, equal keys keep
\* their order
RECURSIVE SortStandings(_)
SortStandings(standings) ==
    IF standings = <<>> THEN <<>>
    ELSE Insert(SortStandings(SubSeq(standings, 1, Len(standings) - 1)),
                standings[Len(standings)])

(* ---------------------------- inputs ---------------------------------- *)

\* all sequences over S of length at most n
SeqsUpTo(S, n) == UNION {[1..k -> S] : k \in 0..n}

\* what the GOOGLE_API_KEY environment variable may hold: unset, empty, a key
ApiKeys == {Null, Str(""), Str("key")}

\* bodies of the league detail response: an object with a name, an object
\* without one, and null (what the API answers for an unknown league)
LeagueBodies == {Str("Dynasty"), Absent, Null}

\* bodies of the users response: no user, one, two, a user with an empty
\* id, and an id that occurs twice
UserLists ==
    {<<>>,
     <<User(Str("u1"), Str("Alice"))>>,
     <<User(Str("u1"), Str("Alice")), User(Str("u2"), Str("Bob"))>>,
     <<User(Str("u2"), Str("Bob")), User(Str("u1"), Str("Alice"))>>,
     <<User(Str(""), Str("Ghost")), User(Str("u1"), Str("Alice"))>>,
     <<User(Str("u1"), Str("Alice")), User(Str("u1"), Str("Al"))>>}

OwnerIds == {Absent, Null, Str(""), Str("u1"), Str("u2"), Str("u9")}
Metadatas == {MetaAbsent, MetaNull, MetaDict(Absent), MetaDict(Null), MetaDict(Str("Team"))}
ScoreVals == {Absent, Null, Str(""), Str("abc"), Str("7")} \cup {Num(k) : k \in -1..MaxNum}
BaseSettings == SettingsDict(Num(1), Absent, Absent, Num(1), Num(0))

\* one-roster answers: every owner with every metadata, every pair of score
\* fields, and every shape of the settings object
OwnerMetaRosters == {Roster(o, m, BaseSettings) : o \in OwnerIds, m \in Metadatas}
ScoreRosters ==
    {Roster(Str("u1"), MetaAbsent, SettingsDict(Num(1), Absent, Absent, fp, fd)) :
        fp \in ScoreVals, fd \in ScoreVals}
SettingsRosters ==
    {Roster(Str("u1"), MetaAbsent, st) :
        st \in {SettingsAbsent, SettingsNull}
               \cup {SettingsDict(w, l, l, Num(1), Num(0)) : w \in {Absent, Num(MaxNum)}, l \in {Absent, Num(1)}}}
SingleRosters == OwnerMetaRosters \cup ScoreRosters \cup SettingsRosters

\* longer answers: two owners with equal and unequal (wins, fpts), a roster
\* of an unknown owner and a roster with null metadata
LeaguePool ==
    {Roster(o, MetaAbsent, SettingsDict(Num(k[1]), Absent, Absent, Num(k[2]), Absent)) :
        o \in {Str("u1"), Str("u2")}, k \in {<<2, 1>>, <<2, 2>>, <<1, 2>>}}
    \cup {Roster(Str("u9"), MetaAbsent, BaseSettings), Roster(Str("u1"), MetaNull, BaseSettings)}

RosterLists == {<<r>> : r \in SingleRosters} \cup SeqsUpTo(LeaguePool, MaxRosters)

(* ---------------------------- state ----------------------------------- *)

VARIABLES
    pc,                \* where the script is
    api_key,           \* GOOGLE_API_KEY as read from the environment
    model,             \* whether genai.configure / GenerativeModel have run
    calls,             \* the external calls issued so far, in order, each with
                       \* whether it answered without a fault
    output,            \* what has been printed so far, in order
    league_name,       \* fetch_sleeper_data's local
    rosters,           \* fetch_sleeper_data's local
    users,             \* fetch_sleeper_data's local
    user_map,          \* fetch_sleeper_data's local
    league_standings,  \* fetch_sleeper_data's local
    idx,               \* position of `for roster in rosters`
    league_data,       \* the fetch result the top level holds
    prompt,            \* generate_site_update_summary's local
    genai_summary      \* the summary the top level holds

vars == <<pc, api_key, model, calls, output, league_name, rosters, users, user_map,
          league_standings, idx, league_data, prompt, genai_summary>>

fetch_locals == <<league_name, rosters, users, user_map, league_standings, idx>>

\* None as a fetch result, and a report
NoData == [present |-> FALSE, league_name |-> Null, standings |-> <<>>]
Report(name, standings) == [present |-> TRUE, league_name |-> name, standings |-> standings]

\* an external call and how it ended
Call(name, ok) == [call |-> name, ok |-> ok]

\* printed lines
Line(ev) == [ev |-> ev, entry |-> NoEntry, text |-> ""]
TeamLine(team) == [ev |-> "team", entry |-> team, text |-> ""]
TextLine(text) == [ev |-> "summary", entry |-> NoEntry, text |-> text]

\* team lines of a standings sequence, in its order
TeamLines(standings) == [k \in DOMAIN standings |-> TeamLine(standings[k])]

NoSummary == ""
CouldNotFetch == "Could not fetch league data to generate a summary."
GenText == "generated summary"
GenError == "Error generating content with GenAI: fault"
NoPrompt == [league_name |-> Null, season |-> "", teams |-> <<>>]

\* the state when the interpreter starts on the script
Init ==
    /\ pc = "load"
    /\ api_key \in ApiKeys
    /\ model = FALSE
    /\ calls = <<>>
    /\ output = <<>>
    /\ league_name = Null
    /\ rosters = <<>>
    /\ users = <<>>
    /\ user_map = <<>>
    /\ league_standings = <<>>
    /\ idx = 0
    /\ league_data = NoData
    /\ prompt = NoPrompt
    /\ genai_summary = NoSummary

(* ---------------------------- module level ---------------------------- *)

\* lines 8-15 with `if GOOGLE_API_KEY is None` for `if not GOOGLE_API_KEY`
LoadModuleNoneOnly ==
    /\ pc = "load"
    /\ IF api_key = Null
       THEN /\ pc' = "halted"
            /\ model' = model
       ELSE /\ pc' = "main"
            /\ model' = TRUE
    /\ UNCHANGED <<api_key, calls, output, fetch_locals, league_data, prompt, genai_summary>>

\* lines 8-15: read the key; without one raise ValueError, which nothing
\* catches, else configure the generative model
LoadModule ==
    /\ pc = "load"
    /\ IF ~Truthy(api_key)
       THEN /\ pc' = "halted"
            /\ model' = model
       ELSE /\ pc' = "main"
            /\ model' = TRUE
    /\ UNCHANGED <<api_key, calls, output, fetch_locals, league_data, prompt, genai_summary>>

\* lines 115-116 and 19-22: the two progress messages before the requests
MainStart ==
    /\ pc = "main"
    /\ output' = output \o <<Line("starting"), Line("fetching")>>
    /\ pc' = "get_league"
    /\ UNCHANGED <<api_key, model, calls, fetch_locals, league_data, prompt, genai_summary>>

(* ---------------------------- fetch_sleeper_data ---------------------- *)

\* lines 75-77 without the except clause: the fault leaves the function
FetchFailedPropagating ==
    /\ pc' = "crashed"
    /\ UNCHANGED <<output, league_data>>

\* lines 75-77: a RequestException is logged and the fetch returns None
FetchFailed ==
    /\ output' = output \o <<Line("fetch_error")>>
    /\ league_data' = NoData
    /\ pc' = "check"

\* lines 25-27 without raise_for_status: an error status goes unnoticed
GetLeagueDetailsIgnoringStatus ==
    /\ pc = "get_league"
    /\ \E failed \in BOOLEAN, body \in LeagueBodies :
        /\ calls' = Append(calls, Call("league", ~failed))
        /\ IF body = Null
           THEN /\ pc' = "crashed"
                /\ UNCHANGED <<output, league_data, fetch_locals>>
           ELSE /\ league_name' = GetDefault(body, Str("Your Dynasty League"))
                /\ pc' = "get_rosters"
                /\ UNCHANGED <<output, league_data, rosters, users, user_map, league_standings, idx>>
    /\ UNCHANGED <<api_key, model, prompt, genai_summary>>

\* lines 25-27: the league detail request; raise_for_status raises on an
\* HTTP error status, .get on a null body raises AttributeError
GetLeagueDetails ==
    /\ pc = "get_league"
    /\ \E failed \in BOOLEAN, body \in LeagueBodies :
        /\ calls' = Append(calls, Call("league", ~failed))
        /\ IF failed
           THEN FetchFailed /\ UNCHANGED fetch_locals
           ELSE IF body = Null
           THEN /\ pc' = "crashed"
                /\ UNCHANGED <<output, league_data, fetch_locals>>
           ELSE /\ league_name' = GetDefault(body, Str("Your Dynasty League"))
                /\ pc' = "get_rosters"
                /\ UNCHANGED <<output, league_data, rosters, users, user_map, league_standings, idx>>
    /\ UNCHANGED <<api_key, model, prompt, genai_summary>>

\* lines 29-31: the rosters request
GetRosters ==
    /\ pc = "get_rosters"
    /\ \E failed \in BOOLEAN, body \in RosterLists :
        /\ calls' = Append(calls, Call("rosters", ~failed))
        /\ IF failed
           THEN FetchFailed /\ UNCHANGED fetch_locals
           ELSE /\ rosters' = body
                /\ pc' = "get_users"
                /\ UNCHANGED <<output, league_data, league_name, users, user_map, league_standings, idx>>
    /\ UNCHANGED <<api_key, model, prompt, genai_summary>>

\* lines 33-41: the users request, then the user index and the empty
\* standings list
GetUsers ==
    /\ pc = "get_users"
    /\ \E failed \in BOOLEAN, body \in UserLists :
        /\ calls' = Append(calls, Call("users", ~failed))
        /\ IF failed
           THEN FetchFailed /\ UNCHANGED fetch_locals
           ELSE /\ users' = body
                /\ user_map' = UserMap(body)
                /\ league_standings' = <<>>
                /\ idx' = 1
                /\ pc' = "build"
                /\ UNCHANGED <<output, league_data, league_name, rosters>>
    /\ UNCHANGED <<api_key, model, prompt, genai_summary>>

\* lines 42-68: one pass of the loop over rosters; an AttributeError is not
\* a RequestException, so it leaves fetch_sleeper_data and ends the script
BuildStep ==
    /\ pc = "build"
    /\ idx <= Len(rosters)
    /\ LET r == BuildEntry(rosters[idx], user_map)
       IN  /\ pc' = IF r.kind = "raise" THEN "crashed" ELSE "build"
           /\ idx' = IF r.kind = "raise" THEN idx ELSE idx + 1
           /\ league_standings' =
                IF r.kind = "entry" THEN Append(league_standings, r.entry) ELSE league_standings
    /\ UNCHANGED <<api_key, model, calls, output, league_name, rosters, users, user_map,
                   league_data, prompt, genai_summary>>

\* lines 70-73: sort and return the report
SortAndReturn ==
    /\ pc = "build"
    /\ idx > Len(rosters)
    /\ league_data' = Report(league_name, SortStandings(league_standings))
    /\ pc' = "check"
    /\ UNCHANGED <<api_key, model, calls, output, fetch_locals, prompt, genai_summary>>

(* ---------------------------- top level ------------------------------- *)

\* lines 118-121 without the `if`: the table and the summary stage always run
MainCheckUnguarded ==
    /\ pc = "check"
    /\ output' = output \o <<Line("table_header")>> \o TeamLines(league_data.standings)
    /\ pc' = "generate"
    /\ UNCHANGED <<api_key, model, calls, fetch_locals, league_data, prompt, genai_summary>>

\* lines 118-121 and 126-127: print the table, or the abort message
MainCheck ==
    /\ pc = "check"
    /\ IF league_data.present /\ league_data.standings # <<>>
       THEN /\ output' = output \o <<Line("table_header")>> \o TeamLines(league_data.standings)
            /\ pc' = "generate"
       ELSE /\ output' = Append(output, Line("abort"))
            /\ pc' = "done"
    /\ UNCHANGED <<api_key, model, calls, fetch_locals, league_data, prompt, genai_summary>>

(* ---------------------------- generate_site_update_summary ------------ *)

\* lines 81-106 with `if not league_data_obj` alone as the guard
GenerateUnlessNone ==
    /\ pc = "generate"
    /\ IF ~league_data.present
       THEN /\ genai_summary' = CouldNotFetch
            /\ pc' = "print_summary"
            /\ UNCHANGED <<prompt, output>>
       ELSE /\ prompt' = [league_name |-> league_data.league_name, season |-> "2025",
                          teams |-> TeamLines(league_data.standings)]
            /\ output' = Append(output, Line("sending"))
            /\ pc' = "gen_call"
            /\ UNCHANGED genai_summary
    /\ UNCHANGED <<api_key, model, calls, fetch_locals, league_data>>

\* lines 81-106: without standings return the fixed message; else build the
\* prompt, one line per team in the standings' order, and announce the call
Generate ==
    /\ pc = "generate"
    /\ IF ~league_data.present \/ league_data.standings = <<>>
       THEN /\ genai_summary' = CouldNotFetch
            /\ pc' = "print_summary"
            /\ UNCHANGED <<prompt, output>>
       ELSE /\ prompt' = [league_name |-> league_data.league_name, season |-> "2025",
                          teams |-> TeamLines(league_data.standings)]
            /\ output' = Append(output, Line("sending"))
            /\ pc' = "gen_call"
            /\ UNCHANGED genai_summary
    /\ UNCHANGED <<api_key, model, calls, fetch_locals, league_data>>

\* lines 108-112, a fault propagating instead of being caught
GenCallPropagating ==
    /\ pc = "gen_call"
    /\ \E fault \in BOOLEAN :
        /\ calls' = Append(calls, Call("generate", ~fault))
        /\ genai_summary' = IF fault THEN genai_summary ELSE GenText
        /\ pc' = IF fault THEN "crashed" ELSE "print_summary"
    /\ UNCHANGED <<api_key, model, output, fetch_locals, league_data, prompt>>

\* lines 108-112: the generative call; any Exception becomes the returned
\* error string
GenCall ==
    /\ pc = "gen_call"
    /\ \E fault \in BOOLEAN :
        /\ calls' = Append(calls, Call("generate", ~fault))
        /\ genai_summary' = IF fault THEN GenError ELSE GenText
    /\ pc' = "print_summary"
    /\ UNCHANGED <<api_key, model, output, fetch_locals, league_data, prompt>>

\* lines 124-125: the summary header and the summary
PrintSummary ==
    /\ pc = "print_summary"
    /\ output' = output \o <<Line("summary_header"), TextLine(genai_summary)>>
    /\ pc' = "done"
    /\ UNCHANGED <<api_key, model, calls, fetch_locals, league_data, prompt, genai_summary>>

Next ==
    \/ LoadModule
    \/ MainStart
    \/ GetLeagueDetails
    \/ GetRosters
    \/ GetUsers
    \/ BuildStep
    \/ SortAndReturn
    \/ MainCheck
    \/ Generate
    \/ GenCall
    \/ PrintSummary

Spec == Init /\ [][Next]_vars

(* ---------------------------- the summary generator alone ------------- *)

\* entries the builder produces for a league of two owners
GenEntries ==
    {BuildEntry(r, UserMap(<<User(Str("u1"), Str("Alice")), User(Str("u2"), Str("Bob"))>>)).entry :
        r \in {x \in LeaguePool : x.owner_id # Str("u9") /\ x.metadata.t # "null"}}

\* arguments of generate_site_update_summary: None, and reports with sorted
\* standings, the empty one among them
GenInputs ==
    {NoData} \cup
    {Report(name, SortStandings(st)) :
        name \in {Str("Dynasty"), Str("Your Dynasty League")},
        st \in SeqsUpTo(GenEntries, MaxRosters)}

\* a call of generate_site_update_summary(league_data_obj, season) on its own
InitGen ==
    /\ pc = "generate"
    /\ api_key = Str("key")
    /\ model = TRUE
    /\ calls = <<>>
    /\ output = <<>>
    /\ league_name = Null
    /\ rosters = <<>>
    /\ users = <<>>
    /\ user_map = <<>>
    /\ league_standings = <<>>
    /\ idx = 0
    /\ league_data \in GenInputs
    /\ prompt = NoPrompt
    /\ genai_summary = NoSummary

NextGen ==
    \/ Generate
    \/ GenCall

SpecGen == InitGen /\ [][NextGen]_vars

(* ---------------------------- properties ------------------------------ *)

Requests == {"league", "rosters", "users"}

\* some request, or the generative call, ended in a fault
RequestFailed == \E k \in DOMAIN calls : calls[k].call \in Requests /\ ~calls[k].ok
GenerateFailed == \E k \in DOMAIN calls : calls[k].call = "generate" /\ ~calls[k].ok

\* roster i has a non-empty owner_id that is the id of a fetched user
HasMappedOwner(i) ==
    /\ rosters[i].owner_id.t = "str"
    /\ rosters[i].owner_id.s # ""
    /\ \E j \in DOMAIN users : users[j].user_id = rosters[i].owner_id

Injective(p) == \A a, b \in DOMAIN p : a # b => p[a] # p[b]

\* the loop has just finished with roster idx - 1 and appended its entry
JustAppended == pc = "build" /\ idx > 1 /\ HasMappedOwner(idx - 1)
LastRoster == rosters[idx - 1]
LastEntry == league_standings[Len(league_standings)]

\* C1: once one of the three requests has failed, fetch_sleeper_data has
\* returned None to the top level (nothing propagated, the script is at or
\* past the check of the result) and no standings line is ever printed
C1_FetchAbsentOnRequestError ==
    RequestFailed =>
        /\ pc \in {"check", "done"}
        /\ league_data = NoData
        /\ league_standings = <<>>
        /\ \A k \in DOMAIN output : output[k].ev # "team"

\* the users request failed after league detail and rosters had answered
C1_Witness ==
    /\ Len(calls) = 3
    /\ ~calls[3].ok
    /\ Len(rosters) = MaxRosters
    /\ pc = "check"

\* C2: a returned report holds exactly one entry per roster with a mapped
\* owner and none for the others: as many entries as such rosters, matched
\* one to one, each carrying a display name of its roster's owner
C2_OneEntryPerMappedRoster ==
    league_data.present =>
        LET st == league_data.standings
            inc == {i \in DOMAIN rosters : HasMappedOwner(i)}
        IN  /\ Len(st) = Cardinality(inc)
            /\ \E p \in [DOMAIN st -> inc] :
                /\ Injective(p)
                /\ \A k \in DOMAIN st :
                    \E j \in DOMAIN users :
                        /\ users[j].user_id = rosters[p[k]].owner_id
                        /\ users[j].display_name = st[k].owner_name

\* a report built from rosters of which some have a mapped owner and some
\* do not
C2_Witness ==
    /\ league_data.present
    /\ \E i \in DOMAIN rosters : HasMappedOwner(i)
    /\ \E i \in DOMAIN rosters : ~HasMappedOwner(i)
    /\ Len(league_data.standings) < Len(rosters)

\* C3: a returned report's standings are in descending order of wins, then
\* of fpts, and entries with equal wins and fpts stand in the order of
\* their rosters
C3_SortedStable ==
    league_data.present =>
        LET st == league_data.standings
            inc == {i \in DOMAIN rosters : BuildEntry(rosters[i], user_map).kind = "entry"}
        IN  /\ \A k, l \in DOMAIN st :
                k < l => \/ st[k].wins.n > st[l].wins.n
                         \/ st[k].wins.n = st[l].wins.n /\ st[k].fpts >= st[l].fpts
            /\ \E p \in [DOMAIN st -> inc] :
                /\ Injective(p)
                /\ \A k \in DOMAIN st : st[k] = BuildEntry(rosters[p[k]], user_map).entry
                /\ \A k, l \in DOMAIN st :
                    (k < l /\ st[k].wins = st[l].wins /\ st[k].fpts = st[l].fpts) => p[k] < p[l]

\* the example's shape: rosters A(2, 1.0), B(2, 2.0), C(1, 2.0) reported as
\* B, A, C, and behind them a report with two different entries of one key
C3_Witness ==
    /\ league_data.present
    /\ Len(league_data.standings) = 3
    /\ league_standings[1].fpts < league_standings[2].fpts
    /\ league_data.standings = <<league_standings[2], league_standings[1], league_standings[3]>>
    /\ league_standings[3].wins.n < league_standings[1].wins.n
    /\ league_standings[3].fpts > league_standings[1].fpts

\* what the claim calls a score field that is missing, empty or non-numeric
ScoreMissing(v) == v.t = "absent"
ScoreUnparsable(v) == v.t = "null" \/ (v.t = "str" /\ v.s \notin DOMAIN NumericStrings)
ScoreValue(v) ==
    CASE v.t = "num" -> v.n
      [] v.t = "str" /\ v.s \in DOMAIN NumericStrings -> NumericStrings[v.s]
      [] OTHER -> 0

\* C4 as claimed: an entry's fpts is 0 as soon as either score field is
\* missing, empty or non-numeric, and is fpts + fpts_decimal / 100 >= 0 when
\* both are well-formed and non-negative
C4_ZeroWhenEitherFieldMissing ==
    JustAppended =>
        LET fp == LastRoster.settings.f.fpts
            fd == LastRoster.settings.f.fpts_decimal
            bad(v) == ScoreMissing(v) \/ ScoreUnparsable(v)
        IN  /\ (bad(fp) \/ bad(fd)) => LastEntry.fpts = 0
            /\ (~bad(fp) /\ ~bad(fd) /\ ScoreValue(fp) >= 0 /\ ScoreValue(fd) >= 0) =>
                /\ LastEntry.fpts = 100 * ScoreValue(fp) + ScoreValue(fd)
                /\ LastEntry.fpts >= 0

\* C4 as amended: fpts is 0 when either field is present and null, empty or
\* non-numeric; a missing field counts as 0, so when each field is missing
\* or a non-negative number fpts is fpts + fpts_decimal / 100 >= 0
C4_ZeroWhenEitherFieldUnparsable ==
    JustAppended =>
        LET fp == LastRoster.settings.f.fpts
            fd == LastRoster.settings.f.fpts_decimal
        IN  /\ (ScoreUnparsable(fp) \/ ScoreUnparsable(fd)) => LastEntry.fpts = 0
            /\ (~ScoreUnparsable(fp) /\ ~ScoreUnparsable(fd)) =>
                LastEntry.fpts = 100 * ScoreValue(fp) + ScoreValue(fd)
            /\ (~ScoreUnparsable(fp) /\ ~ScoreUnparsable(fd)
                    /\ ScoreValue(fp) >= 0 /\ ScoreValue(fd) >= 0) => LastEntry.fpts >= 0

\* an entry built from a numeric fpts and a non-numeric fpts_decimal
C4_Witness ==
    /\ JustAppended
    /\ LastRoster.settings.f.fpts = Num(1)
    /\ LastRoster.settings.f.fpts_decimal = Str("abc")
    /\ LastEntry.fpts = 0

\* C5: building the entry of a roster with a mapped owner (and a usable
\* settings object) never fails, and the entry's team_name is the owner's
\* display name when the roster has no metadata.team_name (metadata absent,
\* null or empty, or without the key), else the team_name that is set
C5_TeamNameFallback ==
    /\ ~( /\ pc = "crashed"
          /\ idx \in DOMAIN rosters
          /\ HasMappedOwner(idx)
          /\ rosters[idx].settings.t # "null" )
    /\ JustAppended =>
        IF LastRoster.metadata.t \in {"absent", "null"} \/ LastRoster.metadata.team_name.t = "absent"
        THEN LastEntry.team_name = user_map[LastRoster.owner_id]
        ELSE LastEntry.team_name = LastRoster.metadata.team_name

\* C6: called with None or with empty standings, generate_site_update_summary
\* returns the fixed message and issues no generative call
C6_FailFastWithoutStandings ==
    ((~league_data.present \/ league_data.standings = <<>>) /\ pc # "generate") =>
        /\ pc = "print_summary"
        /\ genai_summary = CouldNotFetch
        /\ calls = <<>>
        /\ output = <<>>

\* the function has returned on a report with empty standings
C6_Witness ==
    /\ league_data.present
    /\ league_data.standings = <<>>
    /\ pc = "print_summary"
    /\ genai_summary = CouldNotFetch

\* C7: after a fault of the generative call the function has returned the
\* error string, the script has not ended on the fault, and when it is done
\* its last two lines are the summary header and that string
C7_GenFaultBecomesSummary ==
    GenerateFailed =>
        /\ pc \in {"print_summary", "done"}
        /\ genai_summary = GenError
        /\ pc = "done" =>
            /\ Len(output) >= 2
            /\ output[Len(output) - 1] = Line("summary_header")
            /\ output[Len(output)] = TextLine(GenError)

\* the script is done after a fault of the generative call
C7_Witness ==
    /\ GenerateFailed
    /\ pc = "done"
    /\ output[Len(output)] = TextLine(GenError)

\* C8: what has been printed is, at every point, a prefix of: the two
\* progress messages; then either the table header and one line per team in
\* the standings' (sorted) order, followed by the summary stage's lines
\* (the announcement of the call, the summary header, the summary), or, when
\* the fetch result is absent or without standings, the abort message alone
\* (after the fetch error, if there was one), with no table and no summary
\* stage
C8_OutputOrder ==
    LET st == league_data.standings
        head == <<Line("starting"), Line("fetching")>>
        table == head \o <<Line("table_header")>> \o TeamLines(st)
        usable == league_data.present /\ st # <<>>
        generated == \E k \in DOMAIN calls : calls[k].call = "generate"
    IN  /\ pc \in {"load", "halted", "main"} => output = <<>>
        /\ pc \in {"get_league", "get_rosters", "get_users", "build", "crashed"} => output = head
        /\ pc = "check" => output = IF RequestFailed THEN Append(head, Line("fetch_error")) ELSE head
        /\ pc = "generate" => usable /\ output = table
        /\ pc \in {"gen_call", "print_summary"} => usable /\ output = Append(table, Line("sending"))
        /\ (pc = "done" /\ usable) =>
            /\ generated
            /\ output = table \o <<Line("sending"), Line("summary_header"), TextLine(genai_summary)>>
        /\ (pc = "done" /\ ~usable) =>
            /\ ~generated
            /\ genai_summary = NoSummary
            /\ output = (IF RequestFailed THEN Append(head, Line("fetch_error")) ELSE head)
                            \o <<Line("abort")>>
        /\ \A k, l \in DOMAIN output :
            (k < l /\ output[k].ev = "team" /\ output[l].ev = "team") =>
                \/ output[k].entry.wins.n > output[l].entry.wins.n
                \/ /\ output[k].entry.wins.n = output[l].entry.wins.n
                   /\ output[k].entry.fpts >= output[l].entry.fpts

\* a finished run that printed a table of several teams and then a summary
C8_Witness ==
    /\ pc = "done"
    /\ Len(league_data.standings) >= 2
    /\ Len(output) = Len(league_data.standings) + 6
    /\ output[Len(output)].ev = "summary"

\* C9: with GOOGLE_API_KEY unset or empty the script never gets past the
\* check of the key: the model is not configured, no call is issued, nothing
\* is printed
C9_NoKeyHalts ==
    api_key \in {Null, Str("")} =>
        /\ pc \in {"load", "halted"}
        /\ model = FALSE
        /\ calls = <<>>
        /\ output = <<>>

\* the script has halted on an empty key
C9_Witness ==
    /\ api_key = Str("")
    /\ pc = "halted"

\* C10: the calls issued are a prefix of league detail, rosters, users,
\* generative call, each at most once; every call but the last one issued
\* succeeded; the generative call is issued only with non-empty standings
C10_CallOrder ==
    LET order == <<"league", "rosters", "users", "generate">>
    IN  /\ Len(calls) <= 4
        /\ \A k \in DOMAIN calls : calls[k].call = order[k]
        /\ \A k \in DOMAIN calls : k < Len(calls) => calls[k].ok
        /\ Len(calls) = 4 => league_data.present /\ league_data.standings # <<>>

\* all four calls were issued and the script is done
C10_Witness ==
    /\ Len(calls) = 4
    /\ pc = "done"
    /\ \A k \in DOMAIN calls : calls[k].ok

====
